---- MODULE Spec2Model ----
(***************************************************************************)
(* Model of garm-provider-docker: the lifecycle engine (Provider) that maps *)
(* GARM instance operations onto calls of a Docker engine, together with    *)
(* the label builder and the configuration defaults it relies on.           *)
(*                                                                          *)
(* One provider process performs exactly one operation; every action below  *)
(* is one whole handler.  The Docker engine is the environment: its state   *)
(* is `containers', its calls may fail, and other clients may change it.    *)
(***************************************************************************)
EXTENDS Integers, Sequences, FiniteSets, TLC

VARIABLES
    ConfigFile,  \* what the configuration file says
    Config,      \* config.Config after NewConfig
    containers,  \* the engine: container ID -> container
    op,          \* the operation the last provider process performed
    calls,       \* the engine calls that operation issued, in order
    result,      \* what that operation returned
    gone         \* history, where it is recorded: the references a Delete
                 \* succeeded on, until a container is created under them

vars == <<ConfigFile, Config, containers, op, calls, result, gone>>

(***************************************************************************)
(* Bounds                                                                   *)
(***************************************************************************)
MaxContainers == 2
\* longest repository URL path, in "/" and segment tokens
MaxPathTokens == 5

(***************************************************************************)
(* Label keys                                                               *)
(***************************************************************************)
GarmInstanceNameLabel == "garm.runner/instance-name"
GarmControllerIDLabel == "garm.runner/controller-id"
GarmPoolIDLabel == "garm.runner/pool-id"
GarmFlavorLabel == "garm.runner/flavor"
GarmOSTypeLabel == "garm.runner/os-type"
GarmOSArchLabel == "garm.runner/os-arch"

LabelKeys ==
    { GarmInstanceNameLabel, GarmControllerIDLabel, GarmPoolIDLabel,
      GarmFlavorLabel, GarmOSTypeLabel, GarmOSArchLabel }

(***************************************************************************)
(* Instance status enum of the orchestrator                                 *)
(***************************************************************************)
InstanceRunning == "running"
InstanceStopped == "stopped"
InstanceError == "error"
InstanceStatusUnknown == "unknown"

(***************************************************************************)
(* Input universes                                                          *)
(***************************************************************************)
\* the controller this provider is bound to, and another tenant's
ControllerIDs == {"ctrl-A"}
OtherControllerIDs == {"ctrl-B"}
InstanceNames == {"r1", "r2"}
ListPoolIDs == {"", "p1", "p2"}
ContainerIDs == {"id" \o ToString(i) : i \in 1..MaxContainers}
\* an instance is referred to by its provider ID or by its name
Refs == ContainerIDs \cup InstanceNames

\* A repository URL as net/url parses it: scheme, host and path (the
\* path as its "/" and segment tokens); ok = FALSE is a parse error.
RepoURLs ==
    { [ok |-> TRUE, Scheme |-> "https", Host |-> "github.com", Path |-> <<"/", "org", "/", "repo">>],
      [ok |-> TRUE, Scheme |-> "https", Host |-> "github.com", Path |-> <<"/", "a", "/", "b", "/", "c">>] }

\* what the orchestrator's pool fixes for its instances; source fields
\* may be empty strings
Pools ==
    { [PoolID |-> "", Flavor |-> "", OSType |-> "", OSArch |-> ""],
      [PoolID |-> "p1", Flavor |-> "small", OSType |-> "linux", OSArch |-> "amd64"] }

BootstrapInstances ==
    { [Name |-> n, Image |-> "ubuntu:latest", RepoURL |-> u, PoolID |-> pl.PoolID,
       Flavor |-> pl.Flavor, OSType |-> pl.OSType, OSArch |-> pl.OSArch,
       Labels |-> <<"l1">>, GitHubRunnerGroup |-> "",
       MetadataURL |-> "http://garm/metadata", InstanceToken |-> "token",
       CallbackURL |-> "http://garm/callback"] :
      n \in InstanceNames, u \in RepoURLs, pl \in Pools }

(***************************************************************************)
(* Configuration                                                            *)
(***************************************************************************)
\* the values a configuration file gives the modelled options; it may
\* leave remove_volumes out
ConfigFiles ==
    [RemoveVolumes : {"absent", "false", "true"}, AlwaysPull : BOOLEAN,
     DockerConfigPath : {""}]

\* k.Unmarshal into the zero-valued ProviderConfig: a key that is absent
\* leaves the zero value
Unmarshal(file) ==
    [RemoveVolumes |-> file.RemoveVolumes = "true", AlwaysPull |-> file.AlwaysPull,
     DockerConfigPath |-> file.DockerConfigPath]

\* variant: the value the file gives is kept
setDefaults_KeepsFalse(c) == c

setDefaults(c) ==
    IF ~c.RemoveVolumes THEN [c EXCEPT !.RemoveVolumes = TRUE] ELSE c

NewConfig(file) == setDefaults(Unmarshal(file))

(***************************************************************************)
(* The Docker engine behind the DockerClient interface                      *)
(***************************************************************************)
\* error classes of an engine call: none, client.IsErrNotFound, any other
ErrNone == ""
ErrNotFound == "notfound"
ErrOther == "error"

NoContainer == ""

\* the engine resolves a reference by ID first, then by name
Lookup(cs, ref) ==
    IF ref \in DOMAIN cs THEN ref
    ELSE IF \E id \in DOMAIN cs : cs[id].Name = ref
         THEN CHOOSE id \in DOMAIN cs : cs[id].Name = ref
         ELSE NoContainer

\* types.ContainerState as the engine fills it: a paused container is
\* still Running, OOMKilled is a flag beside the status
ContainerState(c) ==
    [ Running   |-> c.Status \in {"running", "paused"},
      Paused    |-> c.Status = "paused",
      Dead      |-> c.Status = "dead",
      OOMKilled |-> c.OOMKilled ]

\* types.NetworkSettings of a started container, as the engine assigns it
NetworkSettingsChoices ==
    { [nil |-> TRUE, Networks |-> <<>>],
      [nil |-> FALSE,
       Networks |-> << [IPAddress |-> "172.17.0.2", GlobalIPv6Address |-> ""] >>] }

\* ContainerInspect response (types.ContainerJSON)
ContainerJSON(cs, id, nets) ==
    [ ID |-> id,
      Name |-> "/" \o cs[id].Name,
      StateNil |-> FALSE,
      State |-> ContainerState(cs[id]),
      Labels |-> cs[id].Labels,
      NetworkSettings |-> nets ]

\* ContainerList entry (types.Container)
ContainerSummary(cs, id) ==
    [ ID |-> id,
      Names |-> << "/" \o cs[id].Name >>,
      State |-> cs[id].Status,
      Labels |-> cs[id].Labels ]

\* a "label" filter key=value matches a container that carries the key
\* with exactly that value
MatchesFilters(labels, filters) ==
    \A k \in DOMAIN filters : k \in DOMAIN labels /\ labels[k] = filters[k]

RECURSIVE ListFrom(_, _, _, _)
ListFrom(cs, filters, all, i) ==
    IF i > MaxContainers THEN <<>>
    ELSE LET id == "id" \o ToString(i)
             rest == ListFrom(cs, filters, all, i + 1)
         IN IF /\ id \in DOMAIN cs
               /\ MatchesFilters(cs[id].Labels, filters)
               /\ (all \/ cs[id].Status = "running")
            THEN <<ContainerSummary(cs, id)>> \o rest
            ELSE rest

\* ContainerList: the containers matching every filter, the ones that do
\* not run only with All
EngineContainerList(cs, filters, all) == ListFrom(cs, filters, all, 1)

\* ContainerRemove with Force: true; fail is the error the engine raises
\* for an existing container (ErrNone: it removes it)
EngineContainerRemove(cs, ref, fail) ==
    LET id == Lookup(cs, ref)
    IN IF fail = ErrOther THEN [err |-> ErrOther, cs |-> cs, id |-> id]
       ELSE IF id = NoContainer THEN [err |-> ErrNotFound, cs |-> cs, id |-> NoContainer]
       ELSE IF fail # ErrNone THEN [err |-> fail, cs |-> cs, id |-> id]
       ELSE [err |-> ErrNone, id |-> id,
             cs |-> [x \in DOMAIN cs \ {id} |-> cs[x]]]

\* ContainerStop: a running or paused container exits, any other is left as is
EngineContainerStop(cs, ref, fail) ==
    LET id == Lookup(cs, ref)
    IN IF id = NoContainer THEN [err |-> ErrNotFound, cs |-> cs, id |-> NoContainer]
       ELSE IF fail # ErrNone THEN [err |-> fail, cs |-> cs, id |-> id]
       ELSE [err |-> ErrNone, id |-> id,
             cs |-> IF cs[id].Status \in {"running", "paused"}
                    THEN [cs EXCEPT ![id].Status = "exited"]
                    ELSE cs]

\* ContainerStart: a created or exited container runs, a running one is left
\* as is, a paused or dead one is refused
EngineContainerStart(cs, ref, fail) ==
    LET id == Lookup(cs, ref)
    IN IF id = NoContainer THEN [err |-> ErrNotFound, cs |-> cs, id |-> NoContainer]
       ELSE IF fail # ErrNone \/ cs[id].Status \in {"paused", "dead"}
            THEN [err |-> ErrOther, cs |-> cs, id |-> id]
       ELSE [err |-> ErrNone, id |-> id,
             cs |-> IF cs[id].Status = "running" THEN cs
                    ELSE [cs EXCEPT ![id].Status = "running", ![id].OOMKilled = FALSE]]

\* ContainerCreate: refused when the name is taken; newID is the ID the
\* engine gives the container
EngineContainerCreate(cs, name, labels, newID, fail) ==
    IF fail # ErrNone \/ (\E id \in DOMAIN cs : cs[id].Name = name)
    THEN [err |-> ErrOther, cs |-> cs, ID |-> NoContainer]
    ELSE [err |-> ErrNone, ID |-> newID,
          cs |-> [x \in DOMAIN cs \cup {newID} |->
                    IF x = newID
                    THEN [Name |-> name, Labels |-> labels,
                          Status |-> "created", OOMKilled |-> FALSE]
                    ELSE cs[x]]]

\* ContainerInspect
EngineContainerInspect(cs, ref, nets, fail) ==
    LET id == Lookup(cs, ref)
    IN IF id = NoContainer THEN [err |-> ErrNotFound, id |-> NoContainer]
       ELSE IF fail # ErrNone THEN [err |-> fail, id |-> id]
       ELSE [err |-> ErrNone, id |-> id, json |-> ContainerJSON(cs, id, nets)]

(***************************************************************************)
(* internal/spec: scope extraction, environment and labels                  *)
(***************************************************************************)
\* strings.Trim(path, "/") on a path given as its "/" and segment tokens
RECURSIVE TrimLeft(_)
TrimLeft(path) ==
    IF path # <<>> /\ Head(path) = "/" THEN TrimLeft(Tail(path)) ELSE path

RECURSIVE TrimRight(_)
TrimRight(path) ==
    IF path # <<>> /\ path[Len(path)] = "/"
    THEN TrimRight(SubSeq(path, 1, Len(path) - 1))
    ELSE path

\* strings.Split(s, "/"): always at least one part, "" for the empty string
RECURSIVE SplitFrom(_, _)
SplitFrom(path, cur) ==
    IF path = <<>> THEN <<cur>>
    ELSE IF Head(path) = "/" THEN <<cur>> \o SplitFrom(Tail(path), "")
    ELSE SplitFrom(Tail(path), cur \o Head(path))

PathParts(path) == SplitFrom(TrimRight(TrimLeft(path)), "")

NoScope == [BaseURL |-> "", Repo |-> "", Org |-> "", Enterprise |-> ""]

ExtractGitHubScopeDetails(u) ==
    LET pathParts == PathParts(u.Path)
        scope == [NoScope EXCEPT !.BaseURL = u.Scheme \o "://" \o u.Host]
    IN IF u.Scheme = "" /\ u.Host = "" /\ u.Path = <<>>
       THEN [err |-> "no gitRepoURL supplied", scope |-> NoScope]
       ELSE IF ~u.ok
       THEN [err |-> "invalid URL", scope |-> NoScope]
       ELSE IF u.Scheme = "" \/ u.Host = ""
       THEN [err |-> "invalid URL", scope |-> NoScope]
       ELSE IF Len(pathParts) = 1
       THEN [err |-> "", scope |-> [scope EXCEPT !.Org = pathParts[1]]]
       ELSE IF Len(pathParts) = 2 /\ pathParts[1] = "enterprises"
       THEN [err |-> "", scope |-> [scope EXCEPT !.Enterprise = pathParts[2]]]
       ELSE IF Len(pathParts) = 2
       THEN [err |-> "", scope |-> [scope EXCEPT !.Org = pathParts[1], !.Repo = pathParts[2]]]
       ELSE [err |-> "URL does not match the expected patterns", scope |-> NoScope]

\* strings.Join(labels, ",")
RECURSIVE Join(_)
Join(ss) ==
    IF ss = <<>> THEN ""
    ELSE IF Len(ss) = 1 THEN ss[1]
    ELSE ss[1] \o "," \o Join(Tail(ss))

GetRunnerEnvs(bp) ==
    LET r == ExtractGitHubScopeDetails(bp.RepoURL)
    IN IF r.err # "" THEN [err |-> r.err, envs |-> <<>>]
       ELSE [err |-> "",
             envs |-> << "RUNNER_ORG=" \o r.scope.Org,
                         "RUNNER_REPO=" \o r.scope.Repo,
                         "RUNNER_ENTERPRISE=" \o r.scope.Enterprise,
                         "RUNNER_GROUP=" \o bp.GitHubRunnerGroup,
                         "RUNNER_NAME=" \o bp.Name,
                         "RUNNER_LABELS=" \o Join(bp.Labels),
                         "RUNNER_NO_DEFAULT_LABELS=true",
                         "DISABLE_RUNNER_UPDATE=true",
                         "RUNNER_WORKDIR=/runner/_work/",
                         "GITHUB_URL=" \o r.scope.BaseURL,
                         "RUNNER_EPHEMERAL=true",
                         "RUNNER_TOKEN=dummy",
                         "METADATA_URL=" \o bp.MetadataURL,
                         "BEARER_TOKEN=" \o bp.InstanceToken,
                         "CALLBACK_URL=" \o bp.CallbackURL >>]

\* variant: a label is only written for a non-empty source field
GetContainerLabels_SkipEmpty(controllerID, bp) ==
    LET all == (GarmInstanceNameLabel :> bp.Name) @@ (GarmControllerIDLabel :> controllerID)
               @@ (GarmPoolIDLabel :> bp.PoolID) @@ (GarmFlavorLabel :> bp.Flavor)
               @@ (GarmOSTypeLabel :> bp.OSType) @@ (GarmOSArchLabel :> bp.OSArch)
    IN [ k \in {x \in LabelKeys : all[x] # ""} |-> all[k] ]

GetContainerLabels(controllerID, bp) ==
    [ k \in LabelKeys |->
        CASE k = GarmInstanceNameLabel -> bp.Name
          [] k = GarmControllerIDLabel -> controllerID
          [] k = GarmPoolIDLabel -> bp.PoolID
          [] k = GarmFlavorLabel -> bp.Flavor
          [] k = GarmOSTypeLabel -> bp.OSType
          [] k = GarmOSArchLabel -> bp.OSArch ]

(***************************************************************************)
(* internal/provider: helpers                                               *)
(***************************************************************************)
\* a Go map read: the zero value for a missing key
LabelValue(labels, k) == IF k \in DOMAIN labels THEN labels[k] ELSE ""

\* name[1:] when name starts with '/', name otherwise
StripLeadingSlash(name) ==
    IF \E n \in InstanceNames : name = "/" \o n
    THEN CHOOSE n \in InstanceNames : name = "/" \o n
    ELSE name

RECURSIVE NetworkAddresses(_)
NetworkAddresses(networks) ==
    IF networks = <<>> THEN <<>>
    ELSE LET settings == Head(networks)
         IN (IF settings.IPAddress # ""
             THEN << [Address |-> settings.IPAddress, Type |-> "private"] >>
             ELSE <<>>)
            \o (IF settings.GlobalIPv6Address # ""
                THEN << [Address |-> settings.GlobalIPv6Address, Type |-> "private"] >>
                ELSE <<>>)
            \o NetworkAddresses(Tail(networks))

containerToAddresses(c) ==
    IF c.NetworkSettings.nil THEN <<>>
    ELSE NetworkAddresses(c.NetworkSettings.Networks)

containerToInstance(c) ==
    LET status ==
          IF c.StateNil THEN InstanceStatusUnknown
          ELSE IF c.State.Running THEN InstanceRunning
          ELSE IF c.State.Paused THEN InstanceStopped
          ELSE IF c.State.Dead \/ c.State.OOMKilled THEN InstanceError
          ELSE InstanceStopped
    IN [ ProviderID |-> c.ID,
         Name |-> c.Name,
         Status |-> status,
         OSType |-> LabelValue(c.Labels, GarmOSTypeLabel),
         OSArch |-> LabelValue(c.Labels, GarmOSArchLabel),
         OSName |-> "", OSVersion |-> "", Addresses |-> <<>> ]

containerSummaryToInstance(c) ==
    LET status ==
          IF c.State = "running" THEN InstanceRunning
          ELSE IF c.State = "exited" THEN InstanceStopped
          ELSE InstanceStatusUnknown
        name == IF Len(c.Names) > 0 THEN StripLeadingSlash(c.Names[1]) ELSE ""
    IN [ ProviderID |-> c.ID,
         Name |-> name,
         Status |-> status,
         OSType |-> LabelValue(c.Labels, GarmOSTypeLabel),
         OSArch |-> LabelValue(c.Labels, GarmOSArchLabel),
         OSName |-> "", OSVersion |-> "", Addresses |-> <<>> ]

RECURSIVE SummariesToInstances(_)
SummariesToInstances(cl) ==
    IF cl = <<>> THEN <<>>
    ELSE <<containerSummaryToInstance(Head(cl))>> \o SummariesToInstances(Tail(cl))

RECURSIVE SummaryIDs(_)
SummaryIDs(cl) ==
    IF cl = <<>> THEN <<>> ELSE <<Head(cl).ID>> \o SummaryIDs(Tail(cl))

\* what a handler run yields: the engine calls it issued, the engine state
\* it leaves and the value it returns
Outcome(cl, cs, err, instances) ==
    [calls |-> cl, cs |-> cs, result |-> [err |-> err, instances |-> instances]]

(***************************************************************************)
(* internal/provider: the handlers.  p is the Provider, eng and fail are    *)
(* what the engine answers to the calls of this run.                        *)
(***************************************************************************)
Providers == [ControllerID : ControllerIDs]

\* the pull stream of a successful ImagePull: io.Copy drains it, the
\* deferred Close runs when CreateInstance returns
ReaderDrain(image) == [call |-> "io.Copy", ref |-> image, err |-> ErrNone]
ReaderClose(image) == [call |-> "reader.Close", ref |-> image, err |-> ErrNone]

\* variant: the instance is identified by its name
CreatedInstance_FromName(inspect, bp) ==
    [ ProviderID |-> bp.Name,
      Name |-> bp.Name,
      Status |-> InstanceRunning,
      OSType |-> bp.OSType,
      OSArch |-> bp.OSArch,
      OSName |-> "linux",
      OSVersion |-> "unknown",
      Addresses |-> containerToAddresses(inspect) ]

\* step 6 of CreateInstance: the instance it returns
CreatedInstance(inspect, bp) ==
    [ ProviderID |-> inspect.ID,
      Name |-> bp.Name,
      Status |-> InstanceRunning,
      OSType |-> bp.OSType,
      OSArch |-> bp.OSArch,
      OSName |-> "linux",
      OSVersion |-> "unknown",
      Addresses |-> containerToAddresses(inspect) ]

\* variant: a failure to start is not looked at
CreateContainer_IgnoresStartFailure(cs, cl, deferred, p, bp, eng) ==
    LET e == GetRunnerEnvs(bp)
        labels == GetContainerLabels(p.ControllerID, bp)
        created == EngineContainerCreate(cs, bp.Name, labels, eng.newID, eng.create)
        createCall == [call |-> "ContainerCreate", ref |-> bp.Name, Image |-> bp.Image,
                       Env |-> e.envs, Labels |-> labels,
                       err |-> created.err, ID |-> created.ID]
        cl3 == Append(cl, createCall)
        started == EngineContainerStart(created.cs, created.ID, eng.start)
        cl4 == Append(cl3, [call |-> "ContainerStart", ref |-> created.ID, err |-> started.err])
        inspected == EngineContainerInspect(started.cs, created.ID, eng.nets, eng.inspect)
        cl5 == Append(cl4, [call |-> "ContainerInspect", ref |-> created.ID, err |-> inspected.err])
    IN IF e.err # ""
       THEN Outcome(cl \o deferred, cs, "failed to generate envs", <<>>)
       ELSE IF created.err # ErrNone
       THEN Outcome(cl3 \o deferred, created.cs, "failed to create container", <<>>)
       ELSE IF inspected.err # ErrNone
       THEN Outcome(cl5 \o deferred, started.cs, "failed to inspect container after start", <<>>)
       ELSE Outcome(cl5 \o deferred, started.cs, "", << CreatedInstance(inspected.json, bp) >>)

\* variant: a container that fails to start is removed again
CreateContainer_RollsBack(cs, cl, deferred, p, bp, eng) ==
    LET e == GetRunnerEnvs(bp)
        labels == GetContainerLabels(p.ControllerID, bp)
        created == EngineContainerCreate(cs, bp.Name, labels, eng.newID, eng.create)
        createCall == [call |-> "ContainerCreate", ref |-> bp.Name, Image |-> bp.Image,
                       Env |-> e.envs, Labels |-> labels,
                       err |-> created.err, ID |-> created.ID]
        cl3 == Append(cl, createCall)
        started == EngineContainerStart(created.cs, created.ID, eng.start)
        cl4 == Append(cl3, [call |-> "ContainerStart", ref |-> created.ID, err |-> started.err])
        undone == EngineContainerRemove(started.cs, created.ID, ErrNone)
        undoCall == [call |-> "ContainerRemove", ref |-> created.ID, Force |-> TRUE,
                     RemoveVolumes |-> TRUE, err |-> undone.err]
        inspected == EngineContainerInspect(started.cs, created.ID, eng.nets, eng.inspect)
        cl5 == Append(cl4, [call |-> "ContainerInspect", ref |-> created.ID, err |-> inspected.err])
    IN IF e.err # ""
       THEN Outcome(cl \o deferred, cs, "failed to generate envs", <<>>)
       ELSE IF created.err # ErrNone
       THEN Outcome(cl3 \o deferred, created.cs, "failed to create container", <<>>)
       ELSE IF started.err # ErrNone
       THEN Outcome(Append(cl4, undoCall) \o deferred, undone.cs,
                    "failed to start container", <<>>)
       ELSE IF inspected.err # ErrNone
       THEN Outcome(cl5 \o deferred, started.cs, "failed to inspect container after start", <<>>)
       ELSE Outcome(cl5 \o deferred, started.cs, "", << CreatedInstance(inspected.json, bp) >>)

\* steps 2 to 6 of CreateInstance; cl are the calls of image resolution,
\* deferred the deferred calls that run on return
CreateContainer(cs, cl, deferred, p, bp, eng) ==
    LET e == GetRunnerEnvs(bp)
        labels == GetContainerLabels(p.ControllerID, bp)
        created == EngineContainerCreate(cs, bp.Name, labels, eng.newID, eng.create)
        createCall == [call |-> "ContainerCreate", ref |-> bp.Name, Image |-> bp.Image,
                       Env |-> e.envs, Labels |-> labels,
                       err |-> created.err, ID |-> created.ID]
        cl3 == Append(cl, createCall)
        started == EngineContainerStart(created.cs, created.ID, eng.start)
        cl4 == Append(cl3, [call |-> "ContainerStart", ref |-> created.ID, err |-> started.err])
        inspected == EngineContainerInspect(started.cs, created.ID, eng.nets, eng.inspect)
        cl5 == Append(cl4, [call |-> "ContainerInspect", ref |-> created.ID, err |-> inspected.err])
    IN IF e.err # ""
       THEN Outcome(cl \o deferred, cs, "failed to generate envs", <<>>)
       ELSE IF created.err # ErrNone
       THEN Outcome(cl3 \o deferred, created.cs, "failed to create container", <<>>)
       ELSE IF started.err # ErrNone
       THEN Outcome(cl4 \o deferred, started.cs, "failed to start container", <<>>)
       ELSE IF inspected.err # ErrNone
       THEN Outcome(cl5 \o deferred, started.cs, "failed to inspect container after start", <<>>)
       ELSE Outcome(cl5 \o deferred, started.cs, "", << CreatedInstance(inspected.json, bp) >>)

\* The text of an image reference as its separators and the pieces
\* between them
ImageText(image) ==
    CASE image = "ubuntu:latest" -> <<"ubuntu", ":", "latest">>
      [] image = "library/ubuntu" -> <<"library", "/", "ubuntu">>
      [] image = "ghcr.io/org/runner:v1" ->
            <<"ghcr", ".", "io", "/", "org", "/", "runner", ":", "v1">>
      [] image = "localhost:5000/runner" ->
            <<"localhost", ":", "5000", "/", "runner">>

\* strings.Contains(text, sep)
Contains(text, sep) == \E i \in 1..Len(text) : text[i] = sep

\* strings.SplitN(text, sep, 2)
SplitN2(text, sep) ==
    IF ~Contains(text, sep) THEN <<text>>
    ELSE LET i == CHOOSE k \in 1..Len(text) :
                     text[k] = sep /\ \A j \in 1..(k - 1) : text[j] # sep
         IN << SubSeq(text, 1, i - 1), SubSeq(text, i + 1, Len(text)) >>

\* the string a text stands for
RECURSIVE Concat(_)
Concat(text) == IF text = <<>> THEN "" ELSE Head(text) \o Concat(Tail(text))

\* the registry an image is pulled from
RegistryHost(image) ==
    LET text == ImageText(image)
        parts == SplitN2(text, "/")
    IN IF Contains(text, "/") /\ (Contains(parts[1], ".") \/ Contains(parts[1], ":"))
       THEN Concat(parts[1])
       ELSE "docker.io"

\* base64url(json(registry.AuthConfig{Username, Password}))
EncodeAuth(username, password) ==
    "base64url({username:" \o username \o ",password:" \o password \o "})"

\* variant: an auth entry without ":" is taken as a user name
getRegistryAuth_NoColonIsUser(cfg, image, docker) ==
    LET configPath == IF cfg.DockerConfigPath = ""
                      THEN docker.home \o "/.docker/config.json"
                      ELSE cfg.DockerConfigPath
        file == docker.files[configPath]
        registryHost == RegistryHost(image)
        entry == file.Auths[registryHost]
        parts == SplitN2(entry.text, ":")
    IN IF cfg.DockerConfigPath = "" /\ docker.homeErr THEN ""
       ELSE IF ~file.readable THEN ""
       ELSE IF ~file.parsable THEN ""
       ELSE IF registryHost \notin DOMAIN file.Auths THEN ""
       ELSE IF ~entry.b64 THEN ""
       ELSE IF Len(parts) # 2 THEN EncodeAuth(Concat(parts[1]), "")
       ELSE EncodeAuth(Concat(parts[1]), Concat(parts[2]))

\* the registry credentials for an image from the docker config file;
\* docker is the home directory and the files of the process
getRegistryAuth(cfg, image, docker) ==
    LET configPath == IF cfg.DockerConfigPath = ""
                      THEN docker.home \o "/.docker/config.json"
                      ELSE cfg.DockerConfigPath
        file == docker.files[configPath]
        registryHost == RegistryHost(image)
        entry == file.Auths[registryHost]
        parts == SplitN2(entry.text, ":")
    IN IF cfg.DockerConfigPath = "" /\ docker.homeErr THEN ""
       ELSE IF ~file.readable THEN ""
       ELSE IF ~file.parsable THEN ""
       ELSE IF registryHost \notin DOMAIN file.Auths THEN ""
       ELSE IF ~entry.b64 THEN ""
       ELSE IF Len(parts) # 2 THEN ""
       ELSE EncodeAuth(Concat(parts[1]), Concat(parts[2]))

\* variant: the image is inspected even under always-pull
InspectsImage_Always(cfg) == TRUE

\* variant: an image that is not found is not pulled
NeedsPull_OnlyAlways(cfg, imageInspect) == cfg.AlwaysPull

\* step 1 of CreateInstance: whether the image is inspected, and whether
\* it is pulled given what the inspection answered
InspectsImage(cfg) == ~cfg.AlwaysPull

NeedsPull(cfg, imageInspect) ==
    cfg.AlwaysPull \/ (InspectsImage(cfg) /\ imageInspect = ErrNotFound)

\* variant: the pull stream is drained but never closed
CreateInstance_NoDeferredClose(cs, cfg, p, bp, eng) ==
    LET inspectCall == [call |-> "ImageInspectWithRaw", ref |-> bp.Image, err |-> eng.imageInspect]
        cl1 == IF InspectsImage(cfg) THEN <<inspectCall>> ELSE <<>>
        needsPull == NeedsPull(cfg, eng.imageInspect)
        cl2 == Append(cl1, [call |-> "ImagePull", ref |-> bp.Image,
                            RegistryAuth |-> getRegistryAuth(cfg, bp.Image, eng.docker),
                            err |-> eng.pull])
    IN IF InspectsImage(cfg) /\ eng.imageInspect = ErrOther
       THEN Outcome(cl1, cs, "failed to inspect image", <<>>)
       ELSE IF needsPull /\ eng.pull # ErrNone
       THEN Outcome(cl2, cs, "failed to pull image", <<>>)
       ELSE IF needsPull
       THEN CreateContainer(cs, Append(cl2, ReaderDrain(bp.Image)),
                            <<>>, p, bp, eng)
       ELSE CreateContainer(cs, cl1, <<>>, p, bp, eng)

CreateInstance(cs, cfg, p, bp, eng) ==
    LET inspectCall == [call |-> "ImageInspectWithRaw", ref |-> bp.Image, err |-> eng.imageInspect]
        cl1 == IF InspectsImage(cfg) THEN <<inspectCall>> ELSE <<>>
        needsPull == NeedsPull(cfg, eng.imageInspect)
        cl2 == Append(cl1, [call |-> "ImagePull", ref |-> bp.Image,
                            RegistryAuth |-> getRegistryAuth(cfg, bp.Image, eng.docker),
                            err |-> eng.pull])
    IN IF InspectsImage(cfg) /\ eng.imageInspect = ErrOther
       THEN Outcome(cl1, cs, "failed to inspect image", <<>>)
       ELSE IF needsPull /\ eng.pull # ErrNone
       THEN Outcome(cl2, cs, "failed to pull image", <<>>)
       ELSE IF needsPull
       THEN CreateContainer(cs, Append(cl2, ReaderDrain(bp.Image)),
                            <<ReaderClose(bp.Image)>>, p, bp, eng)
       ELSE CreateContainer(cs, cl1, <<>>, p, bp, eng)

\* variant: not-found is an error like any other
DeleteInstance_NotFoundFails(cs, cfg, p, instance, fail) ==
    LET removed == EngineContainerRemove(cs, instance, fail)
        cl == << [call |-> "ContainerRemove", ref |-> instance, Force |-> TRUE,
                  RemoveVolumes |-> cfg.RemoveVolumes, err |-> removed.err] >>
    IN IF removed.err # ErrNone
       THEN Outcome(cl, removed.cs, "failed to remove container", <<>>)
       ELSE Outcome(cl, removed.cs, "", <<>>)

DeleteInstance(cs, cfg, p, instance, fail) ==
    LET removed == EngineContainerRemove(cs, instance, fail)
        cl == << [call |-> "ContainerRemove", ref |-> instance, Force |-> TRUE,
                  RemoveVolumes |-> cfg.RemoveVolumes, err |-> removed.err] >>
    IN IF removed.err # ErrNone
       THEN IF removed.err = ErrNotFound
            THEN Outcome(cl, removed.cs, "", <<>>)
            ELSE Outcome(cl, removed.cs, "failed to remove container", <<>>)
       ELSE Outcome(cl, removed.cs, "", <<>>)

\* variant: a reference that names no container is reported as an
\* instance of unknown status
GetInstance_NotFoundIsUnknown(cs, p, instance, nets, fail) ==
    LET inspected == EngineContainerInspect(cs, instance, nets, fail)
        cl == << [call |-> "ContainerInspect", ref |-> instance, err |-> inspected.err] >>
    IN IF inspected.err = ErrNotFound
       THEN Outcome(cl, cs, "", << [ ProviderID |-> instance, Name |-> "",
                                     Status |-> InstanceStatusUnknown,
                                     OSType |-> "", OSArch |-> "", OSName |-> "",
                                     OSVersion |-> "", Addresses |-> <<>> ] >>)
       ELSE IF inspected.err # ErrNone
       THEN Outcome(cl, cs, "failed to inspect container", <<>>)
       ELSE Outcome(cl, cs, "", << containerToInstance(inspected.json) >>)

GetInstance(cs, p, instance, nets, fail) ==
    LET inspected == EngineContainerInspect(cs, instance, nets, fail)
        cl == << [call |-> "ContainerInspect", ref |-> instance, err |-> inspected.err] >>
    IN IF inspected.err # ErrNone
       THEN Outcome(cl, cs, "failed to inspect container", <<>>)
       ELSE Outcome(cl, cs, "", << containerToInstance(inspected.json) >>)

\* variant: the pool ID is not made a filter
ListFilters_NoPool(p, poolID) == GarmControllerIDLabel :> p.ControllerID

\* the label filters of ListInstances
ListFilters(p, poolID) ==
    IF poolID # ""
    THEN (GarmControllerIDLabel :> p.ControllerID) @@ (GarmPoolIDLabel :> poolID)
    ELSE (GarmControllerIDLabel :> p.ControllerID)

ListAll == TRUE

ListInstances(cs, p, poolID, fail) ==
    LET filtersArgs == ListFilters(p, poolID)
        cl == IF fail # ErrNone THEN <<>> ELSE EngineContainerList(cs, filtersArgs, ListAll)
        listCall == [call |-> "ContainerList", ref |-> "", Filters |-> filtersArgs,
                     All |-> ListAll, err |-> fail, IDs |-> SummaryIDs(cl)]
    IN IF fail # ErrNone
       THEN Outcome(<<listCall>>, cs, "failed to list containers", <<>>)
       ELSE Outcome(<<listCall>>, cs, "", SummariesToInstances(cl))

\* the removal loop of RemoveAllInstances over the listed containers;
\* failing are the IDs whose removal the engine refuses
RECURSIVE RemoveEach(_, _, _, _, _)
RemoveEach(cs, cfg, ids, failing, cl) ==
    IF ids = <<>> THEN [cs |-> cs, calls |-> cl]
    ELSE LET id == Head(ids)
             removed == EngineContainerRemove(cs, id, IF id \in failing THEN ErrOther ELSE ErrNone)
             removeCall == [call |-> "ContainerRemove", ref |-> id, Force |-> TRUE,
                            RemoveVolumes |-> cfg.RemoveVolumes, err |-> removed.err]
         IN RemoveEach(removed.cs, cfg, Tail(ids), failing, Append(cl, removeCall))

\* variant: a removal that fails fails the operation
RemoveAllInstances_FailsOnRemoveError(cs, cfg, p, failing, fail) ==
    LET filtersArgs == GarmControllerIDLabel :> p.ControllerID
        listed == IF fail # ErrNone THEN <<>> ELSE EngineContainerList(cs, filtersArgs, TRUE)
        listCall == [call |-> "ContainerList", ref |-> "", Filters |-> filtersArgs,
                     All |-> TRUE, err |-> fail, IDs |-> SummaryIDs(listed)]
        loop == RemoveEach(cs, cfg, SummaryIDs(listed), failing, <<listCall>>)
    IN IF fail # ErrNone
       THEN Outcome(<<listCall>>, cs, "failed to list containers for removal", <<>>)
       ELSE IF \E i \in 1..Len(loop.calls) : loop.calls[i].err # ErrNone
       THEN Outcome(loop.calls, loop.cs, "failed to remove container", <<>>)
       ELSE Outcome(loop.calls, loop.cs, "", <<>>)

RemoveAllInstances(cs, cfg, p, failing, fail) ==
    LET filtersArgs == GarmControllerIDLabel :> p.ControllerID
        listed == IF fail # ErrNone THEN <<>> ELSE EngineContainerList(cs, filtersArgs, TRUE)
        listCall == [call |-> "ContainerList", ref |-> "", Filters |-> filtersArgs,
                     All |-> TRUE, err |-> fail, IDs |-> SummaryIDs(listed)]
        loop == RemoveEach(cs, cfg, SummaryIDs(listed), failing, <<listCall>>)
    IN IF fail # ErrNone
       THEN Outcome(<<listCall>>, cs, "failed to list containers for removal", <<>>)
       ELSE Outcome(loop.calls, loop.cs, "", <<>>)

\* variant: the grace timeout also under force
StopTimeout_AlwaysGrace(force) == 10

\* the stop timeout in seconds
StopTimeout(force) == IF force THEN 0 ELSE 10

Stop(cs, p, instance, force, fail) ==
    LET stopped == EngineContainerStop(cs, instance, fail)
        cl == << [call |-> "ContainerStop", ref |-> instance,
                  Timeout |-> StopTimeout(force), err |-> stopped.err] >>
    IN IF stopped.err # ErrNone
       THEN Outcome(cl, stopped.cs, "failed to stop container", <<>>)
       ELSE Outcome(cl, stopped.cs, "", <<>>)

Start(cs, p, instance, fail) ==
    LET started == EngineContainerStart(cs, instance, fail)
        cl == << [call |-> "ContainerStart", ref |-> instance, err |-> started.err] >>
    IN IF started.err # ErrNone
       THEN Outcome(cl, started.cs, "failed to start container", <<>>)
       ELSE Outcome(cl, started.cs, "", <<>>)

(***************************************************************************)
(* The state machine                                                        *)
(***************************************************************************)
NoOp == [kind |-> "none"]
NoResult == [err |-> "", instances |-> <<>>]

EngineErrors == {ErrNone, ErrOther}

\* what the engine answers to the calls of one CreateInstance: the image
\* is present, absent or cannot be inspected, and at most one of the other
\* calls fails (every later call that is issued succeeds); network
\* settings are only drawn for a run in which no call fails
CreateAnswers ==
    { e \in [imageInspect : {ErrNone, ErrNotFound, ErrOther},
             failing : {"", "ImagePull", "ContainerCreate", "ContainerStart", "ContainerInspect"},
             nets : NetworkSettingsChoices] :
        /\ e.imageInspect = ErrOther => e.failing = ""
        /\ e.nets.nil \/ e.failing = "" }

\* The docker config files of the process.  A file is unreadable,
\* unparsable, or gives base64 auth entries by registry host; an entry is
\* valid base64 or not (b64) and decodes to text.
DockerConfigPaths == {"/root/.docker/config.json", "/etc/garm/docker.json"}
RegistryHosts == {"docker.io", "ghcr.io"}
AuthEntries ==
    { [b64 |-> FALSE, text |-> <<>>],
      [b64 |-> TRUE, text |-> <<>>],
      [b64 |-> TRUE, text |-> <<"user">>],
      [b64 |-> TRUE, text |-> <<"user", ":", "pass">>],
      [b64 |-> TRUE, text |-> <<"user", ":", "pa", ":", "ss">>] }
DockerConfigFiles ==
    { [readable |-> FALSE, parsable |-> FALSE, Auths |-> <<>>],
      [readable |-> TRUE, parsable |-> FALSE, Auths |-> <<>>],
      [readable |-> TRUE, parsable |-> TRUE, Auths |-> <<>>] }
    \cup { [readable |-> TRUE, parsable |-> TRUE, Auths |-> h :> a] :
             h \in RegistryHosts, a \in AuthEntries }
DockerEnvs ==
    [homeErr : BOOLEAN, home : {"/root"}, files : [DockerConfigPaths -> DockerConfigFiles]]

\* a process without docker config files
NoDockerConfig ==
    [homeErr |-> FALSE, home |-> "/root",
     files |-> [path \in DockerConfigPaths |->
                  [readable |-> FALSE, parsable |-> FALSE, Auths |-> <<>>]]]

AnswerTo(e, call) == IF e.failing = call THEN ErrOther ELSE ErrNone

\* the value of gone where the history is not recorded
NoHistory == {"-"}

Init ==
    /\ ConfigFile \in ConfigFiles
    /\ Config = NewConfig(ConfigFile)
    /\ containers = <<>>
    /\ op = NoOp
    /\ calls = <<>>
    /\ result = NoResult
    /\ gone = NoHistory

\* the orchestrator starts one provider process at a time
Idle == op = NoOp

\* the references that name a container of cs2 and none of cs: a container
\* was created under them
CreatedRefs(cs, cs2) ==
    { r \in Refs : Lookup(cs, r) = NoContainer /\ Lookup(cs2, r) # NoContainer }

\* one provider process ran handler run
Ran(o, run) ==
    /\ op' = o
    /\ calls' = run.calls
    /\ containers' = run.cs
    /\ result' = run.result
    /\ gone' = IF gone = NoHistory THEN gone
               ELSE ( IF o.kind = "DeleteInstance" /\ run.result.err = ""
                      THEN gone \cup {o.instance}
                      ELSE gone ) \ CreatedRefs(containers, run.cs)
    /\ UNCHANGED <<ConfigFile, Config>>

\* a provider process runs CreateInstance on one of the requests bps, the
\* engine answering one of answers, in one of the environments dockers
CreateInstanceRun(bps, answers, dockers) ==
    /\ Idle
    /\ \E p \in Providers, bp \in bps, e \in answers, docker \in dockers,
          newID \in ContainerIDs \ DOMAIN containers :
        Ran([kind |-> "CreateInstance", p |-> p, bp |-> bp, eng |-> e,
             docker |-> docker],
            CreateInstance(containers, Config, p, bp,
                [imageInspect |-> e.imageInspect,
                 pull |-> AnswerTo(e, "ImagePull"),
                 create |-> AnswerTo(e, "ContainerCreate"),
                 start |-> AnswerTo(e, "ContainerStart"),
                 inspect |-> AnswerTo(e, "ContainerInspect"),
                 newID |-> newID, nets |-> e.nets, docker |-> docker]))

DoCreateInstance == CreateInstanceRun(BootstrapInstances, CreateAnswers, {NoDockerConfig})

\* the orchestrator may repeat a removal right away; again records that
\* this removal repeats one of the same reference that succeeded
DoDeleteInstance ==
    /\ Idle \/ op.kind = "DeleteInstance"
    /\ \E p \in Providers, instance \in Refs, fail \in EngineErrors :
        Ran([kind |-> "DeleteInstance", p |-> p, instance |-> instance,
             again |-> /\ op.kind = "DeleteInstance"
                       /\ op.instance = instance
                       /\ result.err = ""],
            DeleteInstance(containers, Config, p, instance, fail))

DoGetInstance ==
    /\ Idle
    /\ \E p \in Providers, instance \in Refs, fail \in EngineErrors :
        Ran([kind |-> "GetInstance", p |-> p, instance |-> instance],
            GetInstance(containers, p, instance, [nil |-> TRUE, Networks |-> <<>>], fail))

DoListInstances ==
    /\ Idle
    /\ \E p \in Providers, poolID \in ListPoolIDs, fail \in EngineErrors :
        Ran([kind |-> "ListInstances", p |-> p, poolID |-> poolID],
            ListInstances(containers, p, poolID, fail))

DoRemoveAllInstances ==
    /\ Idle
    /\ \E p \in Providers, failing \in SUBSET DOMAIN containers, fail \in EngineErrors :
        Ran([kind |-> "RemoveAllInstances", p |-> p],
            RemoveAllInstances(containers, Config, p, failing, fail))

DoStop ==
    /\ Idle
    /\ \E p \in Providers, instance \in Refs, force \in BOOLEAN, fail \in EngineErrors :
        Ran([kind |-> "Stop", p |-> p, instance |-> instance, force |-> force],
            Stop(containers, p, instance, force, fail))

DoStart ==
    /\ Idle
    /\ \E p \in Providers, instance \in Refs, fail \in EngineErrors :
        Ran([kind |-> "Start", p |-> p, instance |-> instance],
            Start(containers, p, instance, fail))

\* the provider process exits; its result has been handed over
ProcessExit ==
    /\ ~Idle
    /\ op' = NoOp
    /\ calls' = <<>>
    /\ result' = NoResult
    /\ UNCHANGED <<ConfigFile, Config, containers, gone>>

\* labels of a container this provider did not create: none at all, or
\* those another controller's provider gave it
ForeignLabels(name) ==
    { <<>> } \cup
    { GetContainerLabels(c, [Name |-> name, PoolID |-> "p1", Flavor |-> "small",
                             OSType |-> "linux", OSArch |-> "amd64"]) :
        c \in OtherControllerIDs }

\* another client of the engine creates and starts a container
ForeignContainerCreated ==
    /\ Idle
    /\ \E id \in ContainerIDs \ DOMAIN containers, name \in InstanceNames :
        \E labels \in ForeignLabels(name) :
            LET created == EngineContainerCreate(containers, name, labels, id, ErrNone)
            IN /\ created.err = ErrNone
               /\ containers' = EngineContainerStart(created.cs, id, ErrNone).cs
               /\ gone' = gone \ CreatedRefs(containers, created.cs)
    /\ UNCHANGED <<ConfigFile, Config, op, calls, result>>

\* the states the engine moves a container to without the provider: the
\* process exits, it is paused or resumed, the kernel kills a process of
\* it for memory, a removal gets stuck
ContainerTransitions(c) ==
    CASE c.Status = "running" /\ ~c.OOMKilled ->
            { [c EXCEPT !.Status = "exited"],
              [c EXCEPT !.Status = "paused"],
              [c EXCEPT !.OOMKilled = TRUE],
              [c EXCEPT !.Status = "exited", !.OOMKilled = TRUE] }
      [] c.Status = "running" /\ c.OOMKilled -> { [c EXCEPT !.Status = "exited"] }
      [] c.Status = "paused" -> { [c EXCEPT !.Status = "running"] }
      [] c.Status = "exited" /\ ~c.OOMKilled -> { [c EXCEPT !.Status = "dead"] }
      [] OTHER -> {}

ContainerStateChanged ==
    /\ Idle
    /\ \E id \in DOMAIN containers :
        \E c \in ContainerTransitions(containers[id]) :
            containers' = [containers EXCEPT ![id] = c]
    /\ UNCHANGED <<ConfigFile, Config, op, calls, result, gone>>

Next ==
    \/ DoCreateInstance
    \/ DoDeleteInstance
    \/ DoGetInstance
    \/ DoListInstances
    \/ DoRemoveAllInstances
    \/ DoStop
    \/ DoStart
    \/ ProcessExit
    \/ ForeignContainerCreated
    \/ ContainerStateChanged

Spec == Init /\ [][Next]_vars

(***************************************************************************)
(* Properties                                                               *)
(***************************************************************************)
\* positions in the call log of the calls of one engine operation
CallsOf(name) == {i \in 1..Len(calls) : calls[i].call = name}

ReturnedIDs == {result.instances[i].ProviderID : i \in 1..Len(result.instances)}

\* the container carries the controller-ID label of provider p
OwnedBy(c, p) ==
    /\ GarmControllerIDLabel \in DOMAIN c.Labels
    /\ c.Labels[GarmControllerIDLabel] = p.ControllerID

InPool(c, poolID) ==
    /\ GarmPoolIDLabel \in DOMAIN c.Labels
    /\ c.Labels[GarmPoolIDLabel] = poolID

\* C1: no Get, List, Delete, RemoveAll, Stop or Start of a provider
\* returns, stops, starts or removes a container whose controller-ID label
\* is not the provider's (or is missing): no successful call of the
\* operation addresses such a container, none is in the returned
\* instances, and each is left as it was.
C1_TenantIsolation ==
    [][ ( /\ Idle \/ op.kind = "DeleteInstance"
          /\ op'.kind \in {"GetInstance", "ListInstances", "DeleteInstance",
                           "RemoveAllInstances", "Stop", "Start"} )
        => \A id \in DOMAIN containers :
             ~OwnedBy(containers[id], op'.p) =>
                /\ id \in DOMAIN containers'
                /\ containers'[id] = containers[id]
                /\ id \notin {result'.instances[i].ProviderID : i \in 1..Len(result'.instances)}
                /\ \A i \in 1..Len(calls') :
                     ( /\ calls'[i].call \in {"ContainerRemove", "ContainerStop",
                                              "ContainerStart", "ContainerInspect"}
                       /\ calls'[i].err = ErrNone )
                     => Lookup(containers, calls'[i].ref) # id
      ]_vars

\* C2: a Create without always-pull whose image inspection answers
\* not-found issues exactly one pull, of the requested image, after the
\* inspect call and before any create-container call.
C2_NotFoundPullsOnce ==
    ( /\ op.kind = "CreateInstance"
      /\ ~Config.AlwaysPull
      /\ op.eng.imageInspect = ErrNotFound )
    => /\ Cardinality(CallsOf("ImagePull")) = 1
       /\ Cardinality(CallsOf("ImageInspectWithRaw")) = 1
       /\ \A i \in CallsOf("ImagePull") :
            /\ calls[i].ref = op.bp.Image
            /\ \A j \in CallsOf("ImageInspectWithRaw") : j < i
            /\ \A j \in CallsOf("ContainerCreate") : i < j

C2_Witness ==
    /\ op.kind = "CreateInstance"
    /\ ~Config.AlwaysPull
    /\ op.eng.imageInspect = ErrNotFound
    /\ CallsOf("ImagePull") # {}
    /\ CallsOf("ContainerCreate") # {}

C5_SixLabels ==
    op.kind = "CreateInstance"
    => \A i \in CallsOf("ContainerCreate") :
         /\ DOMAIN calls[i].Labels = LabelKeys
         /\ calls[i].Labels[GarmControllerIDLabel] = op.p.ControllerID
         /\ calls[i].Labels[GarmInstanceNameLabel] = op.bp.Name
         /\ calls[i].err = ErrNone => calls[i].ID \in DOMAIN containers
                                      /\ containers[calls[i].ID].Labels = calls[i].Labels

C5_Witness ==
    /\ op.kind = "CreateInstance"
    /\ op.bp.Flavor = "" /\ op.bp.PoolID = "" /\ op.bp.OSType = ""
    /\ \E i \in CallsOf("ContainerCreate") : calls[i].err = ErrNone

\* C6: a List that succeeds returns exactly the containers, stopped ones
\* included, that carry the provider's controller-ID label and, for a
\* non-empty pool ID, that pool-ID label; an empty pool ID restricts
\* nothing.
C6_ListScope ==
    ( op.kind = "ListInstances" /\ result.err = "" )
    => /\ ReturnedIDs =
            { id \in DOMAIN containers :
                /\ OwnedBy(containers[id], op.p)
                /\ op.poolID # "" => InPool(containers[id], op.poolID) }
       /\ Len(result.instances) = Cardinality(ReturnedIDs)

C6_Witness ==
    /\ op.kind = "ListInstances" /\ result.err = ""
    /\ op.poolID = "p1"
    /\ \E id \in ReturnedIDs : containers[id].Status = "exited"
    /\ \E id \in DOMAIN containers \ ReturnedIDs : OwnedBy(containers[id], op.p)

\* C7: Delete is idempotent.  A Delete returns success exactly when the
\* engine removed the container or reported it not found, and any other
\* removal failure as an error; a Delete of a reference that names no
\* container, in particular one that repeats a Delete that succeeded,
\* returns success (unless the engine fails otherwise) and leaves the
\* engine as it was.
C7_DeleteIdempotent ==
    [][ ( /\ Idle \/ op.kind = "DeleteInstance"
          /\ op'.kind = "DeleteInstance" )
        => /\ Len(calls') = 1
           /\ calls'[1].call = "ContainerRemove"
           /\ calls'[1].ref = op'.instance
           /\ result'.err = "" <=> calls'[1].err \in {ErrNone, ErrNotFound}
           /\ ( /\ calls'[1].err # ErrOther
                /\ \/ Lookup(containers, op'.instance) = NoContainer
                   \/ ( /\ op.kind = "DeleteInstance"
                        /\ op.instance = op'.instance
                        /\ result.err = "" ) )
              => /\ result'.err = ""
                 /\ containers' = containers
      ]_vars

C7_Witness ==
    /\ op.kind = "DeleteInstance"
    /\ op.again
    /\ calls[1].err = ErrNotFound
    /\ result.err = ""
    /\ containers # <<>>

\* C8: Get reports status error for every container the engine reports
\* dead or OOM-killed, whatever its running and paused flags.
C8_DeadOrOOMKilledIsError ==
    ( op.kind = "GetInstance" /\ result.err = "" )
    => LET c == containers[Lookup(containers, op.instance)]
       IN (c.Status = "dead" \/ c.OOMKilled)
          => result.instances[1].Status = InstanceError

\* C9: Get reports status stopped for every container the engine reports
\* paused, also when the engine's running flag is set for it.
C9_PausedIsStopped ==
    ( op.kind = "GetInstance" /\ result.err = "" )
    => LET c == containers[Lookup(containers, op.instance)]
       IN ContainerState(c).Paused
          => result.instances[1].Status = InstanceStopped

\* C10: RemoveAll returns an error exactly when its listing failed, and
\* then issues no removal; after a listing that succeeded it issues one
\* removal for every listed container, in the listed order, whether or
\* not earlier removals failed.
C10_RemoveAllBestEffort ==
    op.kind = "RemoveAllInstances"
    => /\ Len(calls) >= 1
       /\ calls[1].call = "ContainerList"
       /\ result.err # "" <=> calls[1].err # ErrNone
       /\ calls[1].err # ErrNone => Len(calls) = 1
       /\ calls[1].err = ErrNone =>
            /\ Len(calls) = 1 + Len(calls[1].IDs)
            /\ \A i \in 1..Len(calls[1].IDs) :
                 /\ calls[1 + i].call = "ContainerRemove"
                 /\ calls[1 + i].ref = calls[1].IDs[i]

C10_Witness ==
    /\ op.kind = "RemoveAllInstances"
    /\ result.err = ""
    /\ Len(calls) = 3
    /\ calls[2].err = ErrOther
    /\ calls[3].err = ErrNone

PathTokens == {"/", "org", "repo", "enterprises"}

RECURSIVE PathsUpTo(_)
PathsUpTo(n) ==
    IF n = 0 THEN { <<>> }
    ELSE LET shorter == PathsUpTo(n - 1)
         IN shorter \cup { Append(q, t) : q \in {x \in shorter : Len(x) = n - 1}, t \in PathTokens }

ScopeURLs ==
    { [ok |-> k, Scheme |-> sc, Host |-> h, Path |-> q] :
        k \in BOOLEAN, sc \in {"", "https"}, h \in {"", "github.com"},
        q \in PathsUpTo(MaxPathTokens) }

InitScope ==
    /\ ConfigFile = [RemoveVolumes |-> "absent", AlwaysPull |-> FALSE,
                     DockerConfigPath |-> ""]
    /\ Config = NewConfig(ConfigFile)
    /\ containers = <<>>
    /\ \E u \in ScopeURLs : op = [kind |-> "gitRepoURL", url |-> u]
    /\ calls = <<>>
    /\ result = NoResult
    /\ gone = NoHistory

DoExtractGitHubScopeDetails ==
    /\ op.kind = "gitRepoURL"
    /\ LET r == ExtractGitHubScopeDetails(op.url)
       IN /\ op' = [kind |-> "ExtractGitHubScopeDetails", url |-> op.url]
          /\ result' = [err |-> r.err, instances |-> <<>>, scope |-> r.scope]
    /\ UNCHANGED <<ConfigFile, Config, containers, calls, gone>>

NextScope == DoExtractGitHubScopeDetails

SpecScope == InitScope /\ [][NextScope]_vars

\* the number of path segments: the maximal runs of tokens between slashes
SegmentCount(path) ==
    Cardinality({ i \in 1..Len(path) :
                    path[i] # "/" /\ (i = 1 \/ path[i - 1] = "/") })

\* C12: for a URL with scheme and host, scope extraction fails when the
\* path has no segment or more than two, and succeeds only for a path of
\* exactly one or exactly two segments.
C12_ScopeSegmentCount ==
    ( /\ op.kind = "ExtractGitHubScopeDetails"
      /\ op.url.ok /\ op.url.Scheme # "" /\ op.url.Host # "" )
    => LET n == SegmentCount(op.url.Path)
       IN /\ (n = 0 \/ n > 2) => result.err # ""
          /\ result.err = "" => n \in {1, 2}

(***************************************************************************)
(* The history of removals: the same program, started with the default     *)
(* configuration file, with the references a Delete succeeded on recorded  *)
(* in gone.                                                                *)
(***************************************************************************)
InitHistory ==
    /\ ConfigFile = [RemoveVolumes |-> "absent", AlwaysPull |-> FALSE,
                     DockerConfigPath |-> ""]
    /\ Config = NewConfig(ConfigFile)
    /\ containers = <<>>
    /\ op = NoOp
    /\ calls = <<>>
    /\ result = NoResult
    /\ gone = {}

SpecHistory == InitHistory /\ [][Next]_vars

\* a step in which a provider process ran a handler
Handled == op' # NoOp /\ <<op, calls, result>>' # <<op, calls, result>>

\* the instances a handler returned that go by reference ref
ReportedAs(res, ref) ==
    { i \in 1..Len(res.instances) :
        \/ res.instances[i].ProviderID = ref
        \/ StripLeadingSlash(res.instances[i].Name) = ref }

\* what no handler does to a removed reference: it stays without a
\* container unless one is created under it, and Get, List, Stop and Start
\* neither report it nor change the engine
RemovedStaysRemoved(ref) ==
    /\ Lookup(containers', ref) # NoContainer
         => ref \in CreatedRefs(containers, containers')
    /\ ( Handled /\ op'.kind \in {"GetInstance", "Stop", "Start"}
         /\ op'.instance = ref )
       => /\ result'.err # ""
          /\ result'.instances = <<>>
          /\ containers' = containers
    /\ ( Handled /\ op'.kind = "ListInstances" )
       => ReportedAs(result', ref) = {}

InspectStatus(id) ==
    containerToInstance(
        ContainerJSON(containers, id, [nil |-> TRUE, Networks |-> <<>>])).Status

\* the status List derives from the list summary of container id
SummaryStatus(id) ==
    containerSummaryToInstance(ContainerSummary(containers, id)).Status

\* C14: state classification is the same across the response shapes.  The
\* status a Get returns for a container is the status List derives from
\* the list summary of that container, the status a List returns for a
\* container is the status Get derives from its full inspect, and the
\* container a successful Create has just started is running in all
\* three.
C14_ConsistentClassification ==
    /\ ( op.kind = "GetInstance" /\ result.err = "" )
       => result.instances[1].Status
            = SummaryStatus(Lookup(containers, op.instance))
    /\ ( op.kind = "ListInstances" /\ result.err = "" )
       => \A i \in 1..Len(result.instances) :
            result.instances[i].Status
              = InspectStatus(result.instances[i].ProviderID)
    /\ ( op.kind = "CreateInstance" /\ result.err = "" )
       => /\ result.instances[1].Status = InstanceRunning
          /\ InspectStatus(result.instances[1].ProviderID) = InstanceRunning
          /\ SummaryStatus(result.instances[1].ProviderID) = InstanceRunning

(***************************************************************************)
(* Pulling with registry credentials: CreateInstance on images of several  *)
(* registries, with the docker config files as the process may find them.  *)
(***************************************************************************)
Images == {"ubuntu:latest", "library/ubuntu", "ghcr.io/org/runner:v1", "localhost:5000/runner"}

RegistryBootstraps ==
    { [bp EXCEPT !.Image = image] :
        bp \in { b \in BootstrapInstances : b.Name = "r1" /\ b.PoolID = "p1" },
        image \in Images }

RegistryAnswers ==
    { e \in CreateAnswers :
        e.imageInspect # ErrOther /\ e.failing \in {"", "ImagePull"} /\ e.nets.nil }

InitRegistry ==
    /\ ConfigFile \in [RemoveVolumes : {"absent"}, AlwaysPull : BOOLEAN,
                        DockerConfigPath : {"", "/etc/garm/docker.json"}]
    /\ Config = NewConfig(ConfigFile)
    /\ containers = <<>>
    /\ op = NoOp
    /\ calls = <<>>
    /\ result = NoResult
    /\ gone = NoHistory

DoCreateInstanceFromRegistry ==
    CreateInstanceRun(RegistryBootstraps, RegistryAnswers, DockerEnvs)

NextRegistry ==
    \/ DoCreateInstanceFromRegistry
    \/ ProcessExit

SpecRegistry == InitRegistry /\ [][NextRegistry]_vars

\* the docker config file the process reads
ConfigPathRead(cfg, docker) ==
    IF cfg.DockerConfigPath = "" THEN docker.home \o "/.docker/config.json"
    ELSE cfg.DockerConfigPath

\* the outcome of resolving the credentials for an image, from the
\* environment alone
CredentialOutcome(cfg, image, docker) ==
    LET file == docker.files[ConfigPathRead(cfg, docker)]
        host == RegistryHost(image)
    IN IF cfg.DockerConfigPath = "" /\ docker.homeErr THEN "home directory unknown"
       ELSE IF ~file.readable THEN "file unreadable"
       ELSE IF ~file.parsable THEN "file unparsable"
       ELSE IF host \notin DOMAIN file.Auths THEN "no entry for the registry host"
       ELSE IF ~file.Auths[host].b64 THEN "undecodable blob"
       ELSE IF ~Contains(file.Auths[host].text, ":") THEN "blob without separator"
       ELSE "credentials"

\* C15: resolving registry credentials never fails Create.  Whenever
\* Create needs to pull, it issues the pull call whatever the outcome of
\* the resolution, and returns an error only if an engine call failed or
\* the environment could not be built; for every outcome other than
\* credentials found the pull call carries no auth.
C15_CredentialsNeverFailCreate ==
    ( /\ op.kind = "CreateInstance"
      /\ NeedsPull(Config, op.eng.imageInspect)
      /\ ~(InspectsImage(Config) /\ op.eng.imageInspect = ErrOther) )
    => /\ Cardinality(CallsOf("ImagePull")) = 1
       /\ \A i \in CallsOf("ImagePull") :
            /\ calls[i].ref = op.bp.Image
            /\ CredentialOutcome(Config, op.bp.Image, op.docker) # "credentials"
                 => calls[i].RegistryAuth = ""
       /\ result.err # ""
            => \/ \E i \in 1..Len(calls) : calls[i].err # ErrNone
               \/ GetRunnerEnvs(op.bp).err # ""

C15_Witness ==
    /\ op.kind = "CreateInstance"
    /\ CredentialOutcome(Config, op.bp.Image, op.docker) = "blob without separator"
    /\ \E i \in CallsOf("ImagePull") :
         calls[i].RegistryAuth = "" /\ calls[i].err = ErrNone
    /\ result.err = ""

\* C16: Stop issues exactly one stop call, on the reference it was given,
\* with a timeout of 10 seconds without force and of 0 with force, and
\* returns an error exactly when that call failed.
C16_StopTimeout ==
    op.kind = "Stop"
    => /\ Len(calls) = 1
       /\ calls[1].call = "ContainerStop"
       /\ calls[1].ref = op.instance
       /\ ~op.force => calls[1].Timeout = 10
       /\ op.force => calls[1].Timeout = 0
       /\ result.err # "" <=> calls[1].err # ErrNone

C16_Witness ==
    /\ op.kind = "Stop"
    /\ op.force
    /\ calls[1].Timeout = 0
    /\ calls[1].err = ErrNone
    /\ result.err = ""
    /\ containers[Lookup(containers, op.instance)].Status = "exited"

\* the calls CreateInstance makes to the engine
EngineCallNames ==
    {"ImageInspectWithRaw", "ImagePull", "ContainerCreate", "ContainerStart",
     "ContainerInspect"}

\* call c of CreateInstance failed: it returned an error, other than an
\* image inspection answering not-found
StepFailed(c) ==
    /\ c.call \in EngineCallNames
    /\ c.err # ErrNone
    /\ ~(c.call = "ImageInspectWithRaw" /\ c.err = ErrNotFound)

\* C17: Create is fail-fast.  When an engine call of Create fails (an
\* image inspection answering not-found is no failure) or the environment
\* cannot be built, Create returns an error and makes no engine call
\* after it; no container is created when image resolution or
\* environment building failed, and no start is issued when creation
\* failed.  Create returns an error in no other case.
C17_CreateFailFast ==
    [][ ( Handled /\ op'.kind = "CreateInstance" )
        => LET failed == { i \in 1..Len(calls') : StepFailed(calls'[i]) }
               envFailed == GetRunnerEnvs(op'.bp).err # ""
               after(i) == { calls'[j].call : j \in (i + 1)..Len(calls') }
               made == { calls'[j].call : j \in 1..Len(calls') }
           IN /\ result'.err # "" <=> (failed # {} \/ envFailed)
              /\ \A i \in failed :
                   /\ after(i) \cap EngineCallNames = {}
                   /\ calls'[i].call \in {"ImageInspectWithRaw", "ImagePull"}
                        => containers' = containers
                   /\ calls'[i].call = "ContainerCreate"
                        => "ContainerStart" \notin made /\ containers' = containers
              /\ envFailed
                   => /\ made \cap {"ContainerCreate", "ContainerStart",
                                     "ContainerInspect"} = {}
                      /\ containers' = containers
      ]_vars

C17_Witness ==
    /\ op.kind = "CreateInstance"
    /\ CallsOf("ImagePull") # {}
    /\ calls[Len(calls) - 1].call = "ContainerStart"
    /\ calls[Len(calls) - 1].err = ErrOther
    /\ result.err = "failed to start container"
    /\ \E id \in DOMAIN containers : containers[id].Status = "created"

ListedNow(p, poolID) ==
    LET listed == ListInstances(containers, p, poolID, ErrNone).result.instances
    IN { listed[i].ProviderID : i \in 1..Len(listed) }

\* C19: Create performs no rollback.  When start-container or the
\* inspect after it failed, Create made no remove call, and the container
\* it created is in the engine with the provider's controller ID and the
\* request's pool ID as labels; a List by the same controller, for all
\* pools or for the request's pool, returns it, and a RemoveAll by the
\* same controller removes it.
C19_NoRollback ==
    ( /\ op.kind = "CreateInstance"
      /\ result.err \in {"failed to start container",
                          "failed to inspect container after start"} )
    => /\ CallsOf("ContainerRemove") = {}
       /\ Cardinality(CallsOf("ContainerCreate")) = 1
       /\ \A c \in CallsOf("ContainerCreate") :
            LET id == calls[c].ID
            IN /\ id \in DOMAIN containers
               /\ containers[id].Name = op.bp.Name
               /\ OwnedBy(containers[id], op.p)
               /\ InPool(containers[id], op.bp.PoolID)
               /\ id \in ListedNow(op.p, "")
               /\ id \in ListedNow(op.p, op.bp.PoolID)
               /\ id \notin DOMAIN RemoveAllInstances(containers, Config, op.p,
                                                       {}, ErrNone).cs

C19_Witness ==
    /\ op.kind = "CreateInstance"
    /\ result.err = "failed to inspect container after start"
    /\ op.bp.PoolID = "p1"
    /\ \E id \in DOMAIN containers :
         /\ containers[id].Status = "running"
         /\ id \in ListedNow(op.p, "p1")
    /\ Cardinality(DOMAIN containers) = 2

\* the instances a List of provider p for pool poolID returns now that
\* have provider ID id
ListedAs(p, poolID, id) ==
    LET listed == ListInstances(containers, p, poolID, ErrNone).result.instances
    IN { i \in 1..Len(listed) : listed[i].ProviderID = id }

\* instance i reads back as instance made: same name, OS type and OS arch
ReadsBackAs(i, made) ==
    /\ i.Name = made.Name
    /\ i.OSType = made.OSType
    /\ i.OSArch = made.OSArch

\* C20: create/query round trip.  After a Create that succeeded, a List
\* for the request's pool and a List for all pools by a provider with the
\* same controller ID each contain exactly one instance with the provider
\* ID Create returned; that instance, and the instance a Get on that
\* provider ID returns, have the name, OS type and OS arch of the
\* instance Create returned; a List for any other non-empty pool does not
\* contain it.
C20_CreateQueryRoundTrip ==
    ( op.kind = "CreateInstance" /\ result.err = "" )
    => LET made == result.instances[1]
           id == made.ProviderID
           got == GetInstance(containers, op.p, id,
                              [nil |-> TRUE, Networks |-> <<>>], ErrNone).result
       IN /\ \A poolID \in {op.bp.PoolID, ""} :
               LET listed == ListInstances(containers, op.p, poolID, ErrNone).result.instances
               IN /\ Cardinality(ListedAs(op.p, poolID, id)) = 1
                  /\ \A i \in ListedAs(op.p, poolID, id) : ReadsBackAs(listed[i], made)
          /\ \A poolID \in ListPoolIDs \ {op.bp.PoolID, ""} :
               ListedAs(op.p, poolID, id) = {}
          /\ got.err = ""
          /\ ReadsBackAs(got.instances[1], made)

====
